---------------------------- MODULE Spec2Model ----------------------------
(***************************************************************************)
(* Change detection of the MCA insights engine (src/process_data.py,       *)
(* Task B and Task E part 1): find_changes compares two daily CSV          *)
(* snapshots keyed by CIN, the script chains it over day1 -> day2 -> day3, *)
(* saves both change logs as JSON and summarises the Day 3 log.            *)
(*                                                                         *)
(* Data representation.  A CIN is modelled by its rank in the lexical      *)
(* order of the CIN strings (1 < 2 < 3 stands for "K1" < "K2" < "K3").     *)
(* Every other cell is modelled by its text; a missing cell is the value   *)
(* NaN that pandas reads it as.  A CSV file is a record                    *)
(*   [exists, columns, rows]                                               *)
(* whose rows are kept in file order.                                      *)
(***************************************************************************)
EXTENDS Integers, Sequences, FiniteSets

VARIABLES
    old_csv,        \* find_changes alone: contents of old_file_path
    new_csv,        \* find_changes alone: contents of new_file_path
    call,           \* find_changes alone: the frame of the call (locals, result)
    day1,           \* script: contents of day1.csv
    day2,           \* script: contents of day2.csv
    day3,           \* script: contents of day3.csv
    pc,             \* position of the run
    outcome,        \* script: per log_date, how its find_changes call ended
    changes_day_2,  \* script: list returned for 'Day 2'
    changes_day_3,  \* script: list returned for 'Day 3'
    json_day2,      \* script: output/change_log_day2.json
    json_day3,      \* script: output/change_log_day3.json
    summary         \* script: output/daily_summary.txt

vars == <<old_csv, new_csv, call, day1, day2, day3, pc, outcome,
          changes_day_2, changes_day_3, json_day2, json_day3, summary>>

---------------------------------------------------------------------------
(* Bounds and input domains *)

\* Most rows a generated snapshot holds.
MaxRows == 2

\* The CINs of the generated snapshots, by lexical rank.
CINs == {1, 2, 3}

NaN == "NaN"

AllColumns == {"CIN", "CompanyName", "CompanyStatus", "AuthorizedCapital", "PaidupCapital"}

\* The cell contents a generated row takes: between any two of them every
\* watched column shows each of equal / unequal / null-to-value /
\* value-to-null / null-to-null at least once.
Cells ==
    << [CompanyName |-> "Acme Ltd", CompanyStatus |-> "Active",
        AuthorizedCapital |-> "100000", PaidupCapital |-> "100000"],
       [CompanyName |-> "Acme Ltd", CompanyStatus |-> "Strike Off",
        AuthorizedCapital |-> "100000", PaidupCapital |-> NaN],
       [CompanyName |-> "Bolt Pvt", CompanyStatus |-> NaN,
        AuthorizedCapital |-> "500000", PaidupCapital |-> NaN],
       [CompanyName |-> "Bolt Pvt", CompanyStatus |-> "Active",
        AuthorizedCapital |-> NaN, PaidupCapital |-> "500000"] >>

MakeRow(cin, c) ==
    [CIN |-> cin, CompanyName |-> Cells[c].CompanyName,
     CompanyStatus |-> Cells[c].CompanyStatus,
     AuthorizedCapital |-> Cells[c].AuthorizedCapital,
     PaidupCapital |-> Cells[c].PaidupCapital]

Rows == {MakeRow(cin, c) : cin \in CINs, c \in DOMAIN Cells}

RowSeqs(rowset) == UNION {[1..n -> rowset] : n \in 0..MaxRows}

KeyUnique(rows) == \A i, j \in DOMAIN rows : rows[i].CIN = rows[j].CIN => i = j

MakeFile(cols, rows) == [exists |-> TRUE, columns |-> cols, rows |-> rows]

\* Cleaned snapshots as Task A leaves them: every column, one row per CIN,
\* rows in any order.
CleanFiles == {MakeFile(AllColumns, r) : r \in {s \in RowSeqs(Rows) : KeyUnique(s)}}

---------------------------------------------------------------------------
(* pandas operations used by find_changes *)

\* Index.unique(): first occurrences, in order.
Unique(s) ==
    LET F[i \in 0..Len(s)] ==
            IF i = 0 THEN <<>>
            ELSE IF \E j \in 1..(i - 1) : s[j] = s[i] THEN F[i - 1]
                 ELSE Append(F[i - 1], s[i])
    IN F[Len(s)]

Range(s) == {s[i] : i \in DOMAIN s}

RECURSIVE SortedSeq(_)
\* The elements of a set of CINs in ascending order.
SortedSeq(S) ==
    IF S = {} THEN <<>>
    ELSE LET m == CHOOSE x \in S : \A y \in S : x <= y
         IN <<m>> \o SortedSeq(S \ {m})

\* _maybe_try_sort(result, sort=None): CIN strings are always comparable.
maybe_try_sort(s) == SortedSeq(Range(s))

is_monotonic_increasing(s) == \A i \in 1..(Len(s) - 1) : s[i] <= s[i + 1]

Filter(s, S) ==
    LET F[i \in 0..Len(s)] ==
            IF i = 0 THEN <<>>
            ELSE IF s[i] \in S THEN Append(F[i - 1], s[i]) ELSE F[i - 1]
    IN F[Len(s)]

\* Mutant of Index_difference: the labels of `other` are not taken out.
Index_difference_keeps_other(self, other) == maybe_try_sort(Unique(self))

\* Index.difference(other) with its default sort=None: equal indexes give
\* the empty index; an empty `other` gives self.unique() and is NOT sorted
\* (pandas GH#24959); otherwise the unique remaining labels, sorted.
Index_difference(self, other) ==
    IF self = other THEN <<>>
    ELSE IF Len(other) = 0 THEN Unique(self)
    ELSE maybe_try_sort(Unique(Filter(self, Range(self) \ Range(other))))

\* Index.intersection(other) with its default sort=False: equal indexes
\* give self.unique(); two monotonic indexes are merged (ascending result);
\* otherwise the common labels in the order self first holds them.
Index_intersection(self, other) ==
    IF self = other THEN Unique(self)
    ELSE IF Len(self) = 0 \/ Len(other) = 0 THEN <<>>
    ELSE IF is_monotonic_increasing(self) /\ is_monotonic_increasing(other)
         THEN SortedSeq(Range(self) \cap Range(other))
    ELSE Filter(Unique(self), Range(other))

\* pd.read_csv(path, dtype={'CIN': str}).set_index('CIN') and the two
\* exceptions the try block of find_changes catches.
read_csv_error(file) ==
    IF ~file.exists THEN "FileNotFoundError"
    ELSE IF "CIN" \notin file.columns THEN "KeyError"
    ELSE "None"

set_index(file) ==
    [index   |-> [i \in DOMAIN file.rows |-> file.rows[i].CIN],
     columns |-> file.columns \ {"CIN"},
     rows    |-> file.rows]

\* df.loc[cin, col]: KeyError for an absent column; a scalar when the label
\* is unique in the index, a Series of every matching row's value otherwise.
loc(df, cin, col) ==
    IF col \notin df.columns THEN [error |-> "KeyError", series |-> FALSE, value |-> NaN]
    ELSE LET hits == Filter([i \in DOMAIN df.rows |-> i],
                            {i \in DOMAIN df.rows : df.index[i] = cin})
             vals == [k \in DOMAIN hits |-> df.rows[hits[k]][col]]
         IN IF Len(vals) = 1
            THEN [error |-> "None", series |-> FALSE, value |-> vals[1]]
            ELSE [error |-> "None", series |-> TRUE, value |-> vals]

isna(v) == v = NaN

\* Python's != on two scalar cells: NaN is unequal to everything, itself
\* included.
NotEqual(a, b) == IF isna(a) \/ isna(b) THEN TRUE ELSE a # b

---------------------------------------------------------------------------
(* find_changes *)

columns_to_check == <<"CompanyStatus", "AuthorizedCapital", "PaidupCapital">>

NewIncorporationRecord(cin, name, log_date) ==
    [CIN |-> cin, Change_Type |-> "New Incorporation", Field_Changed |-> "N/A",
     Old_Value |-> "N/A", New_Value |-> name, Date |-> log_date]

DeregisteredRecord(cin, name, log_date) ==
    [CIN |-> cin, Change_Type |-> "Deregistered", Field_Changed |-> "N/A",
     Old_Value |-> name, New_Value |-> "N/A", Date |-> log_date]

\* Mutant of FieldUpdateRecord: old and new value change places.
FieldUpdateRecord_swapped(cin, col, old_val, new_val, log_date) ==
    [CIN |-> cin, Change_Type |-> "Field Update", Field_Changed |-> col,
     Old_Value |-> new_val, New_Value |-> old_val, Date |-> log_date]

FieldUpdateRecord(cin, col, old_val, new_val, log_date) ==
    [CIN |-> cin, Change_Type |-> "Field Update", Field_Changed |-> col,
     Old_Value |-> old_val, New_Value |-> new_val, Date |-> log_date]

\* Mutant of ShouldLog: the pd.isna clause is left out.
ShouldLog_without_isna(old_val, new_val) == NotEqual(old_val, new_val)

\* The condition of the if statement on two scalars.
ShouldLog(old_val, new_val) ==
    NotEqual(old_val, new_val) /\ ~(isna(old_val) /\ isna(new_val))

\* Loop 1: one record per new CIN; the first df_new.loc[cin, 'CompanyName']
\* raises KeyError when the column is absent.
AppendNewIncorporations(st, df_new, cins, log_date) ==
    LET F[i \in 0..Len(cins)] ==
            IF i = 0 THEN st
            ELSE IF F[i - 1].raised # "None" THEN F[i - 1]
            ELSE LET v == loc(df_new, cins[i], "CompanyName")
                 IN IF v.error # "None"
                    THEN [F[i - 1] EXCEPT !.raised = v.error]
                    ELSE [F[i - 1] EXCEPT !.changes_list =
                            Append(@, NewIncorporationRecord(cins[i], v.value, log_date))]
    IN F[Len(cins)]

\* Mutant of AppendDeregistrations: the loop body never runs.
AppendDeregistrations_skipped(st, df_old, cins, log_date) == st

\* Loop 2: one record per gone CIN, named from df_old.
AppendDeregistrations(st, df_old, cins, log_date) ==
    LET F[i \in 0..Len(cins)] ==
            IF i = 0 THEN st
            ELSE IF F[i - 1].raised # "None" THEN F[i - 1]
            ELSE LET v == loc(df_old, cins[i], "CompanyName")
                 IN IF v.error # "None"
                    THEN [F[i - 1] EXCEPT !.raised = v.error]
                    ELSE [F[i - 1] EXCEPT !.changes_list =
                            Append(@, DeregisteredRecord(cins[i], v.value, log_date))]
    IN F[Len(cins)]

\* Body of the inner loop for one (cin, col): both lookups, then the if.
\* The truth value of a comparison with a Series raises ValueError.
CheckField(st, df_old, df_new, cin, col, log_date) ==
    IF st.raised # "None" THEN st
    ELSE LET o == loc(df_old, cin, col)
             n == loc(df_new, cin, col)
         IN IF o.error # "None" THEN [st EXCEPT !.raised = o.error]
            ELSE IF n.error # "None" THEN [st EXCEPT !.raised = n.error]
            ELSE IF o.series \/ n.series THEN [st EXCEPT !.raised = "ValueError"]
            ELSE IF ShouldLog(o.value, n.value)
                 THEN [st EXCEPT !.changes_list =
                         Append(@, FieldUpdateRecord(cin, col, o.value, n.value, log_date))]
            ELSE st

\* Loop 3: for cin in common_cins: for col in columns_to_check.
AppendFieldUpdates(st, df_old, df_new, cins, log_date) ==
    LET nc == Len(columns_to_check)
        F[k \in 0..(Len(cins) * nc)] ==
            IF k = 0 THEN st
            ELSE CheckField(F[k - 1], df_old, df_new,
                            cins[((k - 1) \div nc) + 1],
                            columns_to_check[((k - 1) % nc) + 1], log_date)
    IN F[Len(cins) * nc]

\* The frame of one call: the three CIN indexes, the list built so far, the
\* exception that left the function (if any) and the value returned.
find_changes(old_file, new_file, log_date) ==
    LET none == [new_cins |-> <<>>, gone_cins |-> <<>>, common_cins |-> <<>>,
                 changes_list |-> <<>>, raised |-> "None", caught |-> "None",
                 returned |-> <<>>]
    IN IF read_csv_error(old_file) # "None"
       THEN [none EXCEPT !.caught = read_csv_error(old_file)]
       ELSE IF read_csv_error(new_file) # "None"
       THEN [none EXCEPT !.caught = read_csv_error(new_file)]
       ELSE
        LET df_old == set_index(old_file)
            df_new == set_index(new_file)
            new_cins == Index_difference(df_new.index, df_old.index)
            gone_cins == Index_difference(df_old.index, df_new.index)
            common_cins == Index_intersection(df_old.index, df_new.index)
            s0 == [changes_list |-> <<>>, raised |-> "None"]
            s1 == AppendNewIncorporations(s0, df_new, new_cins, log_date)
            s2 == AppendDeregistrations(s1, df_old, gone_cins, log_date)
            s3 == AppendFieldUpdates(s2, df_old, df_new, common_cins, log_date)
        IN [new_cins |-> new_cins, gone_cins |-> gone_cins,
            common_cins |-> common_cins, changes_list |-> s3.changes_list,
            raised |-> s3.raised, caught |-> "None",
            returned |-> IF s3.raised = "None" THEN s3.changes_list ELSE <<>>]

NoCall == [new_cins |-> <<>>, gone_cins |-> <<>>, common_cins |-> <<>>,
           changes_list |-> <<>>, raised |-> "None", caught |-> "None",
           returned |-> <<>>]

NoFile == [exists |-> FALSE, columns |-> {}, rows |-> <<>>]

\* Output files before the script writes them.
NoJson == [written |-> FALSE, text |-> <<>>]

NoSummary == [written |-> FALSE, new_corps |-> 0, deregistered |-> 0, updates |-> 0]

---------------------------------------------------------------------------
(* Specification of find_changes on cleaned snapshots *)

Init ==
    /\ old_csv \in CleanFiles
    /\ new_csv \in CleanFiles
    /\ call = NoCall
    /\ pc = "call"
    /\ day1 = NoFile /\ day2 = NoFile /\ day3 = NoFile
    /\ outcome = [d \in {"Day 2", "Day 3"} |-> "not run"]
    /\ changes_day_2 = <<>> /\ changes_day_3 = <<>>
    /\ json_day2 = NoJson /\ json_day3 = NoJson
    /\ summary = NoSummary

\* find_changes(old_file_path, new_file_path, 'Day 2') runs to its return.
FindChanges ==
    /\ pc = "call"
    /\ call' = find_changes(old_csv, new_csv, "Day 2")
    /\ pc' = "returned"
    /\ UNCHANGED <<old_csv, new_csv, day1, day2, day3, outcome, changes_day_2,
                   changes_day_3, json_day2, json_day3, summary>>

Next == FindChanges

Spec == Init /\ [][Next]_vars

---------------------------------------------------------------------------
(* Vocabulary of the properties, read off the input files themselves *)

Keys(file) == {file.rows[i].CIN : i \in DOMAIN file.rows}

RowOf(file, k) == file.rows[CHOOSE i \in DOMAIN file.rows : file.rows[i].CIN = k]

AddedKeys == Keys(new_csv) \ Keys(old_csv)
RemovedKeys == Keys(old_csv) \ Keys(new_csv)
CommonKeys == Keys(old_csv) \cap Keys(new_csv)

WatchedFields == Range(columns_to_check)

Log == call.returned

\* Positions of the log holding a record of the given type for the key.
RecordsOf(type, k) ==
    {i \in DOMAIN Log : Log[i].Change_Type = type /\ Log[i].CIN = k}

\* Positions of the 'Field Update' records of one (key, field).
UpdatesOf(k, col) ==
    {i \in RecordsOf("Field Update", k) : Log[i].Field_Changed = col}

OldCell(k, col) == RowOf(old_csv, k)[col]
NewCell(k, col) == RowOf(new_csv, k)[col]

\* Null-aware difference of two cells: null equals null and nothing else.
Differs(k, col) == OldCell(k, col) # NewCell(k, col)

ColumnRank(col) == CHOOSE i \in DOMAIN columns_to_check : columns_to_check[i] = col

SectionRank(rec) ==
    CASE rec.Change_Type = "New Incorporation" -> 1
      [] rec.Change_Type = "Deregistered" -> 2
      [] rec.Change_Type = "Field Update" -> 3

---------------------------------------------------------------------------
\* C1: for key-unique snapshots the three indexes find_changes computes
\* (new_cins, gone_cins, common_cins) partition the keys of Old and New:
\* together they hold exactly those keys, each key once and in one index
\* only, and no key is both added and removed.
C1_KeyPartition ==
    pc = "returned" =>
        LET A == Range(call.new_cins)
            R == Range(call.gone_cins)
            C == Range(call.common_cins)
        IN /\ A \cup R \cup C = Keys(old_csv) \cup Keys(new_csv)
           /\ A \cap R = {} /\ A \cap C = {} /\ R \cap C = {}
           /\ Len(call.new_cins) = Cardinality(A)
           /\ Len(call.gone_cins) = Cardinality(R)
           /\ Len(call.common_cins) = Cardinality(C)

\* A call returned with an added, a removed and a common key.
C1_Witness ==
    /\ pc = "returned"
    /\ call.new_cins # <<>> /\ call.gone_cins # <<>> /\ call.common_cins # <<>>

\* C2: in the returned log an added key has exactly one 'New Incorporation'
\* record, a removed key exactly one 'Deregistered' record, and neither has
\* a 'Field Update' record; a common key has no membership record and, per
\* watched field, exactly one 'Field Update' record carrying the old and the
\* new value when they differ null-aware, and none when they do not.
C2_RecordSemantics ==
    pc = "returned" =>
        /\ call.raised = "None"
        /\ \A k \in AddedKeys :
              /\ Cardinality(RecordsOf("New Incorporation", k)) = 1
              /\ RecordsOf("Deregistered", k) = {}
              /\ RecordsOf("Field Update", k) = {}
        /\ \A k \in RemovedKeys :
              /\ Cardinality(RecordsOf("Deregistered", k)) = 1
              /\ RecordsOf("New Incorporation", k) = {}
              /\ RecordsOf("Field Update", k) = {}
        /\ \A k \in CommonKeys :
              /\ RecordsOf("New Incorporation", k) = {}
              /\ RecordsOf("Deregistered", k) = {}
              /\ \A i \in RecordsOf("Field Update", k) :
                    Log[i].Field_Changed \in WatchedFields
              /\ \A col \in WatchedFields :
                    IF Differs(k, col)
                    THEN /\ Cardinality(UpdatesOf(k, col)) = 1
                         /\ \A i \in UpdatesOf(k, col) :
                               /\ Log[i].Old_Value = OldCell(k, col)
                               /\ Log[i].New_Value = NewCell(k, col)
                    ELSE UpdatesOf(k, col) = {}
        /\ \A i \in DOMAIN Log : Log[i].CIN \in Keys(old_csv) \cup Keys(new_csv)

\* A call returned a log for an added key, a removed key and a common key
\* of which one watched field changed and another did not.
C2_Witness ==
    /\ pc = "returned"
    /\ AddedKeys # {} /\ RemovedKeys # {}
    /\ \E k \in CommonKeys : \E c1, c2 \in WatchedFields :
          /\ Differs(k, c1) /\ ~Differs(k, c2)
          /\ UpdatesOf(k, c1) # {}

\* C3: null-aware equality of the field comparison: for a common key and a
\* watched field, null on both sides gives no 'Field Update' record, null
\* on exactly one side gives exactly one, and two present values give one
\* record exactly when they are unequal.
C3_NullAwareEquality ==
    pc = "returned" =>
        \A k \in CommonKeys : \A col \in WatchedFields :
            LET o == OldCell(k, col)
                n == NewCell(k, col)
                count == Cardinality(UpdatesOf(k, col))
            IN /\ (o = NaN /\ n = NaN) => count = 0
               /\ ((o = NaN) # (n = NaN)) => count = 1
               /\ (o # NaN /\ n # NaN) => (count = 1 <=> o # n)
               /\ count <= 1

\* A call returned for a common key with one field null on both sides, one
\* null on exactly one side and one present but changed.
C3_Witness ==
    /\ pc = "returned"
    /\ \E k \in CommonKeys : \E c1, c2, c3 \in WatchedFields :
          /\ OldCell(k, c1) = NaN /\ NewCell(k, c1) = NaN
          /\ (OldCell(k, c2) = NaN) # (NewCell(k, c2) = NaN)
          /\ OldCell(k, c3) # NaN /\ NewCell(k, c3) # NaN /\ Differs(k, c3)
          /\ UpdatesOf(k, c1) = {} /\ UpdatesOf(k, c2) # {} /\ UpdatesOf(k, c3) # {}

\* C5: the returned log is ordered in three sections: the 'New
\* Incorporation' records in ascending key order, then the 'Deregistered'
\* records in ascending key order, then the 'Field Update' records, for
\* every order of the rows of the input snapshots.
C5_SectionOrder ==
    pc = "returned" =>
        \A i, j \in DOMAIN Log :
            i < j =>
                /\ SectionRank(Log[i]) <= SectionRank(Log[j])
                /\ (SectionRank(Log[i]) = SectionRank(Log[j]) /\ SectionRank(Log[i]) < 3)
                      => Log[i].CIN < Log[j].CIN

\* C6: the 'Field Update' records are grouped by key in ascending key
\* order and, within a key, follow the watch-list order, for every order
\* of the rows of the input snapshots.
C6_FieldUpdateOrder ==
    pc = "returned" =>
        \A i, j \in DOMAIN Log :
            (i < j /\ SectionRank(Log[i]) = 3 /\ SectionRank(Log[j]) = 3) =>
                \/ Log[i].CIN < Log[j].CIN
                \/ /\ Log[i].CIN = Log[j].CIN
                   /\ ColumnRank(Log[i].Field_Changed) < ColumnRank(Log[j].Field_Changed)

---------------------------------------------------------------------------
(* Replaying a change log on the old snapshot *)

Unset == [col \in WatchedFields |-> NaN]

\* The old snapshot as a keyed state: its keys and their watched fields.
ReplayStart ==
    [keys |-> Keys(old_csv),
     val  |-> [k \in CINs |->
                 IF k \in Keys(old_csv)
                 THEN [col \in WatchedFields |-> OldCell(k, col)]
                 ELSE Unset]]

ReplayRecord(s, rec) ==
    CASE rec.Change_Type = "New Incorporation" -> [s EXCEPT !.keys = @ \cup {rec.CIN}]
      [] rec.Change_Type = "Deregistered" -> [s EXCEPT !.keys = @ \ {rec.CIN}]
      [] rec.Change_Type = "Field Update" ->
            [s EXCEPT !.val[rec.CIN][rec.Field_Changed] = rec.New_Value]

Replay(log) ==
    LET F[i \in 0..Len(log)] ==
            IF i = 0 THEN ReplayStart ELSE ReplayRecord(F[i - 1], log[i])
    IN F[Len(log)]

\* C10: replaying the returned log on Old in log order gives New's key set
\* and, for every key common to both, New's value in every watched field;
\* the log of a snapshot against itself is empty, so its replay changes
\* nothing.
C10_Replayable ==
    pc = "returned" =>
        /\ Replay(Log).keys = Keys(new_csv)
        /\ \A k \in CommonKeys : \A col \in WatchedFields :
              Replay(Log).val[k][col] = NewCell(k, col)
        /\ (old_csv = new_csv) => (Log = <<>> /\ Replay(Log) = ReplayStart)

\* A log with an insertion, a deletion and a field update was replayed.
C10_Witness ==
    /\ pc = "returned"
    /\ \E i, j, k \in DOMAIN Log :
          /\ SectionRank(Log[i]) = 1 /\ SectionRank(Log[j]) = 2 /\ SectionRank(Log[k]) = 3
    /\ Replay(Log) # ReplayStart
    /\ Replay(Log).keys = Keys(new_csv)

---------------------------------------------------------------------------
(* The script: Task B chain, change log persistence, Task E summary *)

Labels == {"Day 2", "Day 3"}

Errors == {"KeyError", "ValueError"}

\* Day files as they may reach the script uncleaned: rows over two CINs with
\* repeated CINs allowed, a file without CompanyName, a file without a
\* watched column, a file without the CIN column and a missing file.
ScriptCINs == {1, 2}

ScriptRows == {MakeRow(cin, c) : cin \in ScriptCINs, c \in {1, 2}}

PlainRows == {MakeRow(cin, 1) : cin \in ScriptCINs}

ScriptFiles ==
    {MakeFile(AllColumns, r) : r \in RowSeqs(ScriptRows)}
    \cup {MakeFile(AllColumns \ {"CompanyName"}, r) : r \in RowSeqs(PlainRows)}
    \cup {MakeFile(AllColumns \ {"PaidupCapital"}, r) : r \in RowSeqs(PlainRows)}
    \cup {MakeFile(AllColumns \ {"CIN"}, <<>>), NoFile}

\* What the module level sees of a call: the exception that escaped it, or
\* that it returned.
OutcomeOf(frame) == IF frame.raised # "None" THEN frame.raised ELSE "returned"

\* pd.DataFrame(changes): the columns are the keys of the dicts, none for
\* an empty list.
DataFrame(changes) ==
    [columns |-> UNION {DOMAIN changes[i] : i \in DOMAIN changes},
     records |-> changes]

\* DataFrame.to_json(orient='records'): one object per row, nothing else;
\* the column names of a frame without rows are not written.
to_json(frame) == [written |-> TRUE, text |-> frame.records]

\* pd.read_json(path): the columns are the keys found in the objects.
read_json(file) ==
    [columns |-> UNION {DOMAIN file.text[i] : i \in DOMAIN file.text},
     records |-> file.text]

\* len(df[df['Change_Type'] == type])
CountType(frame, type) ==
    Cardinality({i \in DOMAIN frame.records : frame.records[i].Change_Type = type})

\* The try block of Task E: FileNotFoundError and the KeyError of a frame
\* without a Change_Type column are caught and nothing is written.
GenerateSummary(file) ==
    IF ~file.written THEN NoSummary
    ELSE LET log_df_summary == read_json(file)
         IN IF "Change_Type" \notin log_df_summary.columns THEN NoSummary
            ELSE [written |-> TRUE,
                  new_corps |-> CountType(log_df_summary, "New Incorporation"),
                  deregistered |-> CountType(log_df_summary, "Deregistered"),
                  updates |-> CountType(log_df_summary, "Field Update")]

InitScript ==
    /\ day1 \in ScriptFiles
    /\ day2 \in ScriptFiles
    /\ day3 \in ScriptFiles
    /\ pc = "day2"
    /\ outcome = [d \in Labels |-> "not run"]
    /\ changes_day_2 = <<>> /\ changes_day_3 = <<>>
    /\ json_day2 = NoJson /\ json_day3 = NoJson
    /\ summary = NoSummary
    /\ old_csv = NoFile /\ new_csv = NoFile /\ call = NoCall

\* changes_day_2 = find_changes(day1.csv, day2.csv, 'Day 2'); an exception
\* that leaves find_changes is not handled and ends the script.
CompareDay2 ==
    /\ pc = "day2"
    /\ LET frame == find_changes(day1, day2, "Day 2")
       IN /\ outcome' = [outcome EXCEPT !["Day 2"] = OutcomeOf(frame)]
          /\ changes_day_2' = frame.returned
          /\ pc' = IF frame.raised # "None" THEN "crashed" ELSE "day3"
    /\ UNCHANGED <<old_csv, new_csv, call, day1, day2, day3, changes_day_3,
                   json_day2, json_day3, summary>>

\* changes_day_3 = find_changes(day2.csv, day3.csv, 'Day 3')
CompareDay3 ==
    /\ pc = "day3"
    /\ LET frame == find_changes(day2, day3, "Day 3")
       IN /\ outcome' = [outcome EXCEPT !["Day 3"] = OutcomeOf(frame)]
          /\ changes_day_3' = frame.returned
          /\ pc' = IF frame.raised # "None" THEN "crashed" ELSE "save"
    /\ UNCHANGED <<old_csv, new_csv, call, day1, day2, day3, changes_day_2,
                   json_day2, json_day3, summary>>

\* Both change logs are written as JSON.
SaveLogs ==
    /\ pc = "save"
    /\ json_day2' = to_json(DataFrame(changes_day_2))
    /\ json_day3' = to_json(DataFrame(changes_day_3))
    /\ pc' = "summary"
    /\ UNCHANGED <<old_csv, new_csv, call, day1, day2, day3, outcome,
                   changes_day_2, changes_day_3, summary>>

\* Task E part 1 on change_log_day3.json.
Summarize ==
    /\ pc = "summary"
    /\ summary' = GenerateSummary(json_day3)
    /\ pc' = "done"
    /\ UNCHANGED <<old_csv, new_csv, call, day1, day2, day3, outcome,
                   changes_day_2, changes_day_3, json_day2, json_day3>>

NextScript == CompareDay2 \/ CompareDay3 \/ SaveLogs \/ Summarize

SpecScript == InitScript /\ [][NextScript]_vars

---------------------------------------------------------------------------
(* Properties of the script *)

Readable(file) == read_csv_error(file) = "None"

HasDuplicateKey(file) == ~KeyUnique(file.rows)

LogCount(log, type) ==
    Cardinality({i \in DOMAIN log : log[i].Change_Type = type})

WellFormed(file) == file.exists /\ file.columns = AllColumns

\* C4: duplicate keys fail fast: when a key appears twice in the old or in
\* the new snapshot (both otherwise well formed) the call ends in an error
\* and returns no change log.
C4_DuplicateKeyFatal ==
    (/\ outcome["Day 2"] # "not run"
     /\ WellFormed(day1) /\ WellFormed(day2)
     /\ HasDuplicateKey(day1) \/ HasDuplicateKey(day2))
        => (outcome["Day 2"] \in Errors /\ changes_day_2 = <<>>)

\* C7: a fatal error in one transition of the chain does not keep the other
\* transition from running, and a transition that failed is reported as a
\* failure, not as a run that returned a (possibly empty) change log.
C7_ChainIsolation ==
    pc \in {"done", "crashed"} =>
        /\ \A d \in Labels : outcome[d] # "not run"
        /\ ~(Readable(day1) /\ Readable(day2)) => outcome["Day 2"] # "returned"
        /\ ~(Readable(day2) /\ Readable(day3)) => outcome["Day 3"] # "returned"

SchemaComplete(old_file, new_file) ==
    /\ "CompanyName" \in new_file.columns
    /\ \A col \in Range(columns_to_check) :
          col \in old_file.columns /\ col \in new_file.columns

\* C8: a snapshot pair whose new side lacks CompanyName, or either side of
\* which lacks a watched field, makes the run fail with an error and return
\* no change log, whatever rows the snapshots hold (stated here for
\* non-empty key-unique snapshots, which the claim covers).
C8_SchemaCheckedFirst ==
    (/\ outcome["Day 2"] # "not run"
     /\ Readable(day1) /\ Readable(day2)
     /\ KeyUnique(day1.rows) /\ KeyUnique(day2.rows)
     /\ day1.rows # <<>> /\ day2.rows # <<>>
     /\ ~SchemaComplete(day1, day2))
        => (outcome["Day 2"] \in Errors /\ changes_day_2 = <<>>)

\* C9: the summary holds, for every change log of a run on well-formed
\* key-unique snapshots, the empty one included, the number of its records
\* of each of the three change types, which add up to the length of the log.
C9_SummaryCounts ==
    (/\ pc = "done"
     /\ \A f \in {day1, day2, day3} : WellFormed(f) /\ KeyUnique(f.rows)) =>
        /\ summary.written
        /\ summary.new_corps = LogCount(changes_day_3, "New Incorporation")
        /\ summary.deregistered = LogCount(changes_day_3, "Deregistered")
        /\ summary.updates = LogCount(changes_day_3, "Field Update")
        /\ summary.new_corps + summary.deregistered + summary.updates
              = Len(changes_day_3)

===========================================================================
